---- MODULE Spec2Model ----
(***************************************************************************)
(* Model of nitro_boost/core.py: the NitroBoost controller that drives the *)
(* fans of an Acer Nitro 5 through single-byte registers of the embedded   *)
(* controller (EC).  The EC is a byte store reached through one of two     *)
(* filesystem nodes; every register access is a fresh open/seek/transfer   *)
(* that may fail.  Each public method is one action; the outcome of every  *)
(* access it makes is an input of the action.                              *)
(***************************************************************************)
EXTENDS Integers, Sequences, FiniteSets, TLC

(* ---------------------------------------------------------------------- *)
(* Register map and interface paths (core.py:15-28)                        *)
(* ---------------------------------------------------------------------- *)
EC_WRITE_ENABLE == 3
EC_GPU_FAN_MODE == 33
EC_CPU_FAN_MODE == 34
EC_CPU_FAN_PCT == 55
EC_GPU_FAN_PCT == 58
EC_CPU_FAN_RPM_LO == 19
EC_CPU_FAN_RPM_HI == 20
EC_GPU_FAN_RPM_LO == 21
EC_GPU_FAN_RPM_HI == 22

EC_SYS_PATH == "/sys/kernel/debug/ec/ec0/io"
EC_ACPI_PATH == "/dev/ec"

\* Byte codes used by the controller.
WRITE_ENABLE_CODE == 17
CPU_AUTO == 4
CPU_MAX == 8
CPU_CUSTOM == 12
GPU_AUTO == 16
GPU_MAX == 32
GPU_CUSTOM == 48
PCT_MIN == 0
PCT_MAX == 100
RPM_LIMIT == 65000
RPM_PER_PERCENT == 55
ROOT_UID == 0

\* Python's None: an unset path, an absent optional value.
None == "None"
\* An optional value is <<>> when absent and <<v>> when present.
Absent == <<>>
Some(v) == <<v>>
IsSome(o) == o # <<>>
Val(o) == o[1]

MSG_ROOT == "Requer privilegios de root (sudo)"
MSG_GRUB == "Interface EC nao encontrada: ec_sys.write_support=1 + reboot"
MSG_OK == "OK"

Paths == {EC_SYS_PATH, EC_ACPI_PATH}
Regs == {EC_WRITE_ENABLE, EC_GPU_FAN_MODE, EC_CPU_FAN_MODE, EC_CPU_FAN_PCT,
         EC_GPU_FAN_PCT, EC_CPU_FAN_RPM_LO, EC_CPU_FAN_RPM_HI,
         EC_GPU_FAN_RPM_LO, EC_GPU_FAN_RPM_HI}

(* ---------------------------------------------------------------------- *)
(* Bounds of the model                                                     *)
(* ---------------------------------------------------------------------- *)
\* At most this many register accesses of one operation fail.
MaxFaults == 1

\* The subsets of the access numbers 1..n one operation's faults are drawn from.
FaultSets(n) == {F \in SUBSET (1..n) : Cardinality(F) <= MaxFaults}

VARIABLES
    euid,         \* effective user id of the process (os.geteuid())
    exists,       \* the interface nodes that exist in the filesystem
    ec_path,      \* self._ec_path: None or the resolved node
    use_ec_sys,   \* self._use_ec_sys
    reg,          \* the EC register store, owned by the hardware
    last,         \* the last completed operation: name, arguments, result, trace
    prev,         \* the operation before it: name, arguments, whether every access succeeded
    debugfs_private   \* /sys/kernel/debug is searchable by root only (its default mode 0700)

vars == <<euid, exists, ec_path, use_ec_sys, reg, last, prev, debugfs_private>>

(* ---------------------------------------------------------------------- *)
(* The running state of one operation: the controller's fields, the        *)
(* filesystem and the register store it acts on, the trace of what it      *)
(* did so far and the number of register accesses made so far; whether    *)
(* stat() of the debugfs node is denied to the process, and whether an     *)
(* exception has left the operation (nothing of it runs after that).       *)
(* ---------------------------------------------------------------------- *)
Ev(m, e) == IF m.raised THEN m ELSE [m EXCEPT !.tr = Append(@, e)]

\* A step's outcome: the running state after it and the value it gave.
Out(m, v) == [m |-> m, v |-> v]

\* Path.exists(): one filesystem probe.  It is os.stat() with ENOENT, ENOTDIR,
\* EBADF and ELOOP turned into False: EACCES, which stat() of the debugfs node
\* gives a process that may not search /sys/kernel/debug, is raised as
\* PermissionError, and no caller in core.py catches it.
PathExists(m, p) ==
    IF m.raised THEN Out(m, FALSE)
    ELSE IF m.denied /\ p = EC_SYS_PATH
    THEN Out([Ev(m, <<"exists", p>>) EXCEPT !.raised = TRUE], FALSE)
    ELSE Out(Ev(m, <<"exists", p>>), p \in m.exists)

\* core.py:54-58, given the probe a of EC_ACPI_PATH.
DetectAcpi(a) ==
    IF a.v THEN Out([a.m EXCEPT !.ec_path = EC_ACPI_PATH, !.use_ec_sys = FALSE], TRUE)
    ELSE Out(a.m, FALSE)

\* core.py:50-58, given the probe s of EC_SYS_PATH.
DetectSys(s) ==
    IF s.v THEN Out([s.m EXCEPT !.ec_path = EC_SYS_PATH, !.use_ec_sys = TRUE], TRUE)
    ELSE DetectAcpi(PathExists(s.m, EC_ACPI_PATH))

\* Mutant: the character device is preferred to the debugfs node.
_detect_ec_interface_AcpiFirst(m) ==
    LET a == PathExists(m, EC_ACPI_PATH) IN
    IF a.v THEN Out([a.m EXCEPT !.ec_path = EC_ACPI_PATH, !.use_ec_sys = FALSE], TRUE)
    ELSE LET s == PathExists(a.m, EC_SYS_PATH) IN
         IF s.v THEN Out([s.m EXCEPT !.ec_path = EC_SYS_PATH, !.use_ec_sys = TRUE], TRUE)
         ELSE Out(s.m, FALSE)

_detect_ec_interface(m) == DetectSys(PathExists(m, EC_SYS_PATH))

\* The outcomes of `modprobe ec_sys write_support=1`: the module loads and the
\* debugfs node appears; exit status 0 with the filesystem as it was; a nonzero
\* exit status; the 5 s timeout; no modprobe binary.
ModprobeOutcomes == {"created", "rc0", "rc1", "timeout", "notfound"}

\* subprocess.run(["modprobe", ...]): what it does to the filesystem.
Modprobe(m, mp) ==
    IF mp = "created" THEN [m EXCEPT !.exists = @ \cup {EC_SYS_PATH}] ELSE m

_ensure_ec_sys(m, mp) ==
    IF mp \in {"created", "rc0"}
    THEN PathExists(Modprobe(Ev(m, <<"modprobe", mp>>), mp), EC_SYS_PATH)
    ELSE Out(Ev(m, <<"modprobe", mp>>), FALSE)

\* open(path, "r+b"); seek(offset); write(bytes([value])), given the probe e of
\* the path.  Access number n raises IOError/PermissionError/OSError when it
\* is one of the faults F.
WriteByte(e, F, offset, value) ==
    IF ~e.v THEN Out(e.m, FALSE)
    ELSE IF e.m.n \in F THEN Out(e.m, FALSE)
    ELSE Out([e.m EXCEPT !.reg[offset] = value], TRUE)

_write_ec_sys(m, F, offset, value) ==
    IF m.ec_path = None THEN Out(m, FALSE)
    ELSE WriteByte(PathExists(m, m.ec_path), F, offset, value)

_write_acpi_ec(m, F, offset, value) ==
    IF m.ec_path = None THEN Out(m, FALSE)
    ELSE WriteByte(PathExists(m, m.ec_path), F, offset, value)

\* A register access begins: it is the next numbered access of the operation.
Access(m) == [m EXCEPT !.n = @ + 1]

\* `if not self._ec_path: if not self._detect_ec_interface(): return ...`
Resolve(m) ==
    IF m.ec_path = None THEN _detect_ec_interface(m) ELSE Out(m, TRUE)

\* core.py:113-117, given the probe e of the resolved path.
WriteDispatch(e, F, offset, value) ==
    IF ~e.v THEN Out(e.m, FALSE)
    ELSE IF e.m.use_ec_sys THEN _write_ec_sys(e.m, F, offset, value)
    ELSE _write_acpi_ec(e.m, F, offset, value)

\* core.py:110-117, given the outcome d of resolving the handle.
WriteResolved(d, F, offset, value) ==
    IF ~d.v THEN Out(d.m, FALSE)
    ELSE WriteDispatch(PathExists(d.m, d.m.ec_path), F, offset, value)

\* A call leaves one "write" event, carrying whether the byte reached the register.
WriteLogged(w, offset, value) == Out(Ev(w.m, <<"write", offset, value, w.v>>), w.v)

_write_ec(m, F, offset, value) ==
    WriteLogged(WriteResolved(Resolve(Access(m)), F, offset, value), offset, value)

\* open(path, "rb"); seek(offset); read(1), given the probe e of the resolved
\* path.  A raised error and an empty read both give None.
ReadByte(e, F, offset) ==
    IF ~e.v THEN Out(e.m, Absent)
    ELSE IF e.m.n \in F THEN Out(e.m, Absent)
    ELSE Out(e.m, Some(e.m.reg[offset]))

\* core.py:121-132, given the outcome d of resolving the handle.
ReadResolved(d, F, offset) ==
    IF ~d.v THEN Out(d.m, Absent)
    ELSE ReadByte(PathExists(d.m, d.m.ec_path), F, offset)

\* A call leaves one "read" event, carrying whether a byte was read.
ReadLogged(r, offset) == Out(Ev(r.m, <<"read", offset, IsSome(r.v)>>), r.v)

_read_ec(m, F, offset) ==
    ReadLogged(ReadResolved(Resolve(Access(m)), F, offset), offset)

_enable_write(m, F) == _write_ec(m, F, EC_WRITE_ENABLE, WRITE_ENABLE_CODE)

(* ---------------------------------------------------------------------- *)
(* Public operations (core.py:138-277)                                     *)
(* ---------------------------------------------------------------------- *)
\* Mutant: the privilege check made after the module load and the detection.
is_available_CheckLate(m, uid, mp) ==
    LET e == _ensure_ec_sys(m, mp)
        d1 == IF e.v THEN _detect_ec_interface(e.m).m ELSE e.m
        d2 == _detect_ec_interface(d1)
    IN IF uid # ROOT_UID THEN [m |-> d2.m, v |-> <<FALSE, MSG_ROOT>>]
       ELSE IF ~d2.v THEN [m |-> d2.m, v |-> <<FALSE, MSG_GRUB>>]
       ELSE [m |-> d2.m, v |-> <<TRUE, MSG_OK>>]

is_available(m, uid, mp) ==
    IF uid # ROOT_UID THEN [m |-> m, v |-> <<FALSE, MSG_ROOT>>]
    ELSE LET e == _ensure_ec_sys(m, mp)
             d1 == IF e.v THEN _detect_ec_interface(e.m).m ELSE e.m
             d2 == _detect_ec_interface(d1)
         IN IF ~d2.v THEN [m |-> d2.m, v |-> <<FALSE, MSG_GRUB>>]
            ELSE [m |-> d2.m, v |-> <<TRUE, MSG_OK>>]

\* Mutant: the outcome of the write-enable write is not looked at before going on.
set_cooler_boost_individual_GateIgnored(m, F, cpu_max, gpu_max) ==
    LET g == _enable_write(m, F)
        cpu_mode == _read_ec(g.m, F, EC_CPU_FAN_MODE)
        gpu_mode == _read_ec(cpu_mode.m, F, EC_GPU_FAN_MODE)
        new_cpu == IF cpu_max THEN CPU_MAX ELSE CPU_AUTO
        new_gpu == IF gpu_max THEN GPU_MAX ELSE GPU_AUTO
        w1 == _write_ec(gpu_mode.m, F, EC_CPU_FAN_MODE, new_cpu)
        w2 == _write_ec(w1.m, F, EC_GPU_FAN_MODE, new_gpu)
    IN [m |-> w2.m, v |-> g.v]

\* Mutant: success is reported only when both mode writes succeeded.
set_cooler_boost_individual_Strict(m, F, cpu_max, gpu_max) ==
    LET g == _enable_write(m, F) IN
    IF ~g.v THEN [m |-> g.m, v |-> FALSE]
    ELSE LET cpu_mode == _read_ec(g.m, F, EC_CPU_FAN_MODE)
             gpu_mode == _read_ec(cpu_mode.m, F, EC_GPU_FAN_MODE)
             new_cpu == IF cpu_max THEN CPU_MAX ELSE CPU_AUTO
             new_gpu == IF gpu_max THEN GPU_MAX ELSE GPU_AUTO
             w1 == _write_ec(gpu_mode.m, F, EC_CPU_FAN_MODE, new_cpu)
             w2 == _write_ec(w1.m, F, EC_GPU_FAN_MODE, new_gpu)
         IN [m |-> w2.m, v |-> w1.v /\ w2.v]

\* Mutant: each domain's code is chosen by the other domain's flag.
set_cooler_boost_individual_FlagsSwapped(m, F, cpu_max, gpu_max) ==
    LET g == _enable_write(m, F) IN
    IF ~g.v THEN [m |-> g.m, v |-> FALSE]
    ELSE LET cpu_mode == _read_ec(g.m, F, EC_CPU_FAN_MODE)
             gpu_mode == _read_ec(cpu_mode.m, F, EC_GPU_FAN_MODE)
             new_cpu == IF gpu_max THEN CPU_MAX ELSE CPU_AUTO
             new_gpu == IF cpu_max THEN GPU_MAX ELSE GPU_AUTO
             w1 == _write_ec(gpu_mode.m, F, EC_CPU_FAN_MODE, new_cpu)
             w2 == _write_ec(w1.m, F, EC_GPU_FAN_MODE, new_gpu)
         IN [m |-> w2.m, v |-> TRUE]

\* Mutant: a domain found in custom mode is left alone when its flag is false.
set_cooler_boost_individual_KeepCustom(m, F, cpu_max, gpu_max) ==
    LET g == _enable_write(m, F) IN
    IF ~g.v THEN [m |-> g.m, v |-> FALSE]
    ELSE LET cpu_mode == _read_ec(g.m, F, EC_CPU_FAN_MODE)
             gpu_mode == _read_ec(cpu_mode.m, F, EC_GPU_FAN_MODE)
             new_cpu == IF cpu_max THEN CPU_MAX ELSE CPU_AUTO
             new_gpu == IF gpu_max THEN GPU_MAX ELSE GPU_AUTO
             w1 == IF ~cpu_max /\ cpu_mode.v = Some(CPU_CUSTOM) THEN gpu_mode
                   ELSE _write_ec(gpu_mode.m, F, EC_CPU_FAN_MODE, new_cpu)
             w2 == IF ~gpu_max /\ gpu_mode.v = Some(GPU_CUSTOM) THEN w1
                   ELSE _write_ec(w1.m, F, EC_GPU_FAN_MODE, new_gpu)
         IN [m |-> w2.m, v |-> TRUE]

\* Mutant: the GPU mode register is written before the CPU mode register.
set_cooler_boost_individual_GpuFirst(m, F, cpu_max, gpu_max) ==
    LET g == _enable_write(m, F) IN
    IF ~g.v THEN [m |-> g.m, v |-> FALSE]
    ELSE LET cpu_mode == _read_ec(g.m, F, EC_CPU_FAN_MODE)
             gpu_mode == _read_ec(cpu_mode.m, F, EC_GPU_FAN_MODE)
             new_cpu == IF cpu_max THEN CPU_MAX ELSE CPU_AUTO
             new_gpu == IF gpu_max THEN GPU_MAX ELSE GPU_AUTO
             w1 == _write_ec(gpu_mode.m, F, EC_GPU_FAN_MODE, new_gpu)
             w2 == _write_ec(w1.m, F, EC_CPU_FAN_MODE, new_cpu)
         IN [m |-> w2.m, v |-> TRUE]

set_cooler_boost_individual(m, F, cpu_max, gpu_max) ==
    LET g == _enable_write(m, F) IN
    IF ~g.v THEN [m |-> g.m, v |-> FALSE]
    ELSE LET cpu_mode == _read_ec(g.m, F, EC_CPU_FAN_MODE)
             gpu_mode == _read_ec(cpu_mode.m, F, EC_GPU_FAN_MODE)
             new_cpu == IF cpu_max THEN CPU_MAX ELSE CPU_AUTO
             new_gpu == IF gpu_max THEN GPU_MAX ELSE GPU_AUTO
             w1 == _write_ec(gpu_mode.m, F, EC_CPU_FAN_MODE, new_cpu)
             w2 == _write_ec(w1.m, F, EC_GPU_FAN_MODE, new_gpu)
         IN [m |-> w2.m, v |-> TRUE]

set_cooler_boost(m, F, enabled) == set_cooler_boost_individual(m, F, enabled, enabled)

\* Mutant: the GPU mode register is not switched to custom.
set_custom_fans_NoGpuMode(m, F, cpu_percent, gpu_percent) ==
    IF ~(PCT_MIN <= cpu_percent /\ cpu_percent <= PCT_MAX)
       \/ ~(PCT_MIN <= gpu_percent /\ gpu_percent <= PCT_MAX)
    THEN [m |-> m, v |-> FALSE]
    ELSE LET g == _enable_write(m, F) IN
         IF ~g.v THEN [m |-> g.m, v |-> FALSE]
         ELSE LET w2 == _write_ec(g.m, F, EC_CPU_FAN_MODE, CPU_CUSTOM)
                  w3 == _write_ec(w2.m, F, EC_CPU_FAN_PCT, cpu_percent)
                  w4 == _write_ec(w3.m, F, EC_GPU_FAN_PCT, gpu_percent)
              IN [m |-> w4.m, v |-> TRUE]

\* Mutant: only the CPU percentage is validated.
set_custom_fans_CpuCheckedOnly(m, F, cpu_percent, gpu_percent) ==
    IF ~(PCT_MIN <= cpu_percent /\ cpu_percent <= PCT_MAX)
    THEN [m |-> m, v |-> FALSE]
    ELSE LET g == _enable_write(m, F) IN
         IF ~g.v THEN [m |-> g.m, v |-> FALSE]
         ELSE LET w1 == _write_ec(g.m, F, EC_GPU_FAN_MODE, GPU_CUSTOM)
                  w2 == _write_ec(w1.m, F, EC_CPU_FAN_MODE, CPU_CUSTOM)
                  w3 == _write_ec(w2.m, F, EC_CPU_FAN_PCT, cpu_percent)
                  w4 == _write_ec(w3.m, F, EC_GPU_FAN_PCT, gpu_percent)
              IN [m |-> w4.m, v |-> TRUE]

\* Mutant: the sequence of writes ends at the first write that fails.
set_custom_fans_StopOnFailure(m, F, cpu_percent, gpu_percent) ==
    IF ~(PCT_MIN <= cpu_percent /\ cpu_percent <= PCT_MAX)
       \/ ~(PCT_MIN <= gpu_percent /\ gpu_percent <= PCT_MAX)
    THEN [m |-> m, v |-> FALSE]
    ELSE LET g == _enable_write(m, F) IN
         IF ~g.v THEN [m |-> g.m, v |-> FALSE]
         ELSE LET w1 == _write_ec(g.m, F, EC_GPU_FAN_MODE, GPU_CUSTOM) IN
              IF ~w1.v THEN [m |-> w1.m, v |-> TRUE]
              ELSE LET w2 == _write_ec(w1.m, F, EC_CPU_FAN_MODE, CPU_CUSTOM) IN
                   IF ~w2.v THEN [m |-> w2.m, v |-> TRUE]
                   ELSE LET w3 == _write_ec(w2.m, F, EC_CPU_FAN_PCT, cpu_percent) IN
                        IF ~w3.v THEN [m |-> w3.m, v |-> TRUE]
                        ELSE [m |-> _write_ec(w3.m, F, EC_GPU_FAN_PCT, gpu_percent).m,
                              v |-> TRUE]

set_custom_fans(m, F, cpu_percent, gpu_percent) ==
    IF ~(PCT_MIN <= cpu_percent /\ cpu_percent <= PCT_MAX)
       \/ ~(PCT_MIN <= gpu_percent /\ gpu_percent <= PCT_MAX)
    THEN [m |-> m, v |-> FALSE]
    ELSE LET g == _enable_write(m, F) IN
         IF ~g.v THEN [m |-> g.m, v |-> FALSE]
         ELSE LET w1 == _write_ec(g.m, F, EC_GPU_FAN_MODE, GPU_CUSTOM)
                  w2 == _write_ec(w1.m, F, EC_CPU_FAN_MODE, CPU_CUSTOM)
                  w3 == _write_ec(w2.m, F, EC_CPU_FAN_PCT, cpu_percent)
                  w4 == _write_ec(w3.m, F, EC_GPU_FAN_PCT, gpu_percent)
              IN [m |-> w4.m, v |-> TRUE]

set_custom_fan(m, F, percent) == set_custom_fans(m, F, percent, percent)

\* Mutant: one domain at its max code is enough.
get_cooler_boost_status_Either(m, F) ==
    LET cpu_mode == _read_ec(m, F, EC_CPU_FAN_MODE)
        gpu_mode == _read_ec(cpu_mode.m, F, EC_GPU_FAN_MODE)
    IN IF ~IsSome(cpu_mode.v) \/ ~IsSome(gpu_mode.v)
       THEN [m |-> gpu_mode.m, v |-> Absent]
       ELSE [m |-> gpu_mode.m,
             v |-> Some(Val(cpu_mode.v) = CPU_MAX \/ Val(gpu_mode.v) = GPU_MAX)]

get_cooler_boost_status(m, F) ==
    LET cpu_mode == _read_ec(m, F, EC_CPU_FAN_MODE)
        gpu_mode == _read_ec(cpu_mode.m, F, EC_GPU_FAN_MODE)
    IN IF ~IsSome(cpu_mode.v) \/ ~IsSome(gpu_mode.v)
       THEN [m |-> gpu_mode.m, v |-> Absent]
       ELSE [m |-> gpu_mode.m,
             v |-> Some(Val(cpu_mode.v) = CPU_MAX /\ Val(gpu_mode.v) = GPU_MAX)]

\* hi_reg is always given by the callers, so the 8-bit branch (hi_reg is None)
\* is the case of an unreadable high byte.
_read_fan_rpm_ec(m, F, lo_reg, hi_reg) ==
    LET lo == _read_ec(m, F, lo_reg) IN
    IF ~IsSome(lo.v) THEN [m |-> lo.m, v |-> Absent]
    ELSE LET hi == _read_ec(lo.m, F, hi_reg)
             val == IF IsSome(hi.v) THEN Val(hi.v) * 256 + Val(lo.v) ELSE Val(lo.v)
         IN IF val = 0 \/ val > RPM_LIMIT THEN [m |-> hi.m, v |-> Absent]
            ELSE [m |-> hi.m, v |-> Some(val)]

\* Mutant: the label is taken from the CPU domain alone.
ModeLabel_CpuOnly(cpu_mode, gpu_mode) ==
    IF IsSome(cpu_mode) /\ IsSome(gpu_mode)
    THEN IF Val(cpu_mode) = CPU_MAX THEN "max"
         ELSE IF Val(cpu_mode) = CPU_AUTO THEN "auto"
         ELSE IF Val(cpu_mode) = CPU_CUSTOM THEN "custom"
         ELSE "unknown"
    ELSE "unknown"

\* The aggregate mode label of core.py:234-241.
ModeLabel(cpu_mode, gpu_mode) ==
    IF IsSome(cpu_mode) /\ IsSome(gpu_mode)
    THEN IF Val(cpu_mode) = CPU_MAX /\ Val(gpu_mode) = GPU_MAX THEN "max"
         ELSE IF Val(cpu_mode) = CPU_AUTO /\ Val(gpu_mode) = GPU_AUTO THEN "auto"
         ELSE IF Val(cpu_mode) = CPU_CUSTOM /\ Val(gpu_mode) = GPU_CUSTOM THEN "custom"
         ELSE "unknown"
    ELSE "unknown"

\* Mutant: the estimate replaces the measured value whenever the percent is readable.
EstimateRpm_PercentFirst(rpm, pct) ==
    IF IsSome(pct) THEN Some(Val(pct) * RPM_PER_PERCENT) ELSE rpm

\* The RPM estimate of core.py:249-252.
EstimateRpm(rpm, pct) ==
    IF ~IsSome(rpm) /\ IsSome(pct) THEN Some(Val(pct) * RPM_PER_PERCENT) ELSE rpm

\* A write to the register store by another writer (the EC's firmware, another
\* process) while an operation runs: ext is <<>> or <<register, byte>>.
Interfere(m, ext) ==
    IF ext = <<>> THEN m ELSE [m EXCEPT !.reg[ext[1]] = ext[2]]

\* ext is what another writer does to the store between the reads that give
\* the mode and the second pair of mode reads made by get_cooler_boost_status.
get_fan_info(m, F, ext) ==
    LET cpu_mode == _read_ec(m, F, EC_CPU_FAN_MODE)
        gpu_mode == _read_ec(cpu_mode.m, F, EC_GPU_FAN_MODE)
        cpu_pct == _read_ec(gpu_mode.m, F, EC_CPU_FAN_PCT)
        gpu_pct == _read_ec(cpu_pct.m, F, EC_GPU_FAN_PCT)
        cpu_cb == IF IsSome(cpu_mode.v) THEN Some(Val(cpu_mode.v) = CPU_MAX) ELSE Absent
        gpu_cb == IF IsSome(gpu_mode.v) THEN Some(Val(gpu_mode.v) = GPU_MAX) ELSE Absent
        cpu_rpm == _read_fan_rpm_ec(gpu_pct.m, F, EC_CPU_FAN_RPM_LO, EC_CPU_FAN_RPM_HI)
        gpu_rpm == _read_fan_rpm_ec(cpu_rpm.m, F, EC_GPU_FAN_RPM_LO, EC_GPU_FAN_RPM_HI)
        cb == get_cooler_boost_status(Interfere(gpu_rpm.m, ext), F)
    IN [m |-> cb.m,
        v |-> [mode |-> ModeLabel(cpu_mode.v, gpu_mode.v),
               cpu_percent |-> cpu_pct.v,
               gpu_percent |-> gpu_pct.v,
               cpu_rpm |-> EstimateRpm(cpu_rpm.v, cpu_pct.v),
               gpu_rpm |-> EstimateRpm(gpu_rpm.v, gpu_pct.v),
               cooler_boost |-> cb.v,
               cpu_cooler_boost |-> cpu_cb,
               gpu_cooler_boost |-> gpu_cb]]

(* ---------------------------------------------------------------------- *)
(* Inputs: the arguments callers pass and the bytes the hardware holds     *)
(* ---------------------------------------------------------------------- *)
PercentArgs == {-1, 0, 50, 100, 101}
CpuModeBytes == {0, CPU_AUTO, CPU_MAX, CPU_CUSTOM}
GpuModeBytes == {GPU_AUTO, GPU_MAX, GPU_CUSTOM}
PctBytes == {0, 50, 200}
RpmLoBytes == {0, 233}
RpmHiBytes == {0, 253}
Uids == {ROOT_UID, 1000}

\* The bytes another writer may leave in a register.
Bytes(r) ==
    IF r = EC_CPU_FAN_MODE THEN CpuModeBytes
    ELSE IF r = EC_GPU_FAN_MODE THEN GpuModeBytes
    ELSE IF r \in {EC_CPU_FAN_PCT, EC_GPU_FAN_PCT} THEN PctBytes
    ELSE IF r \in {EC_CPU_FAN_RPM_LO, EC_GPU_FAN_RPM_LO} THEN RpmLoBytes
    ELSE IF r \in {EC_CPU_FAN_RPM_HI, EC_GPU_FAN_RPM_HI} THEN RpmHiBytes
    ELSE {0}

\* What another writer may do to the mode registers while get_fan_info runs.
ExtWrites ==
    {<<>>} \cup {<<EC_CPU_FAN_MODE, b>> : b \in {CPU_AUTO, CPU_MAX}}
           \cup {<<EC_GPU_FAN_MODE, b>> : b \in {GPU_AUTO, GPU_MAX}}

\* One operation is disturbed at most MaxFaults times: by a failed access or
\* by a write of another writer.
Disturbances(n) ==
    {d \in FaultSets(n) \X ExtWrites :
        Cardinality(d[1]) + (IF d[2] = <<>> THEN 0 ELSE 1) <= MaxFaults}

(* ---------------------------------------------------------------------- *)
(* State machine                                                           *)
(* ---------------------------------------------------------------------- *)
Idle == [op |-> "idle", args |-> <<>>, ret |-> <<>>, tr |-> <<>>, raised |-> FALSE]

\* Every register access of a trace succeeded.
Clean(tr) ==
    \A i \in 1..Len(tr) :
        /\ tr[i][1] = "read" => tr[i][3]
        /\ tr[i][1] = "write" => tr[i][4]

Setters == {"set_cooler_boost", "set_cooler_boost_individual",
            "set_custom_fan", "set_custom_fans"}

NoPrev == [op |-> "none", args |-> <<>>]

\* The controller as an operation finds it.
Start == [ec_path |-> ec_path, use_ec_sys |-> use_ec_sys, exists |-> exists,
          reg |-> reg, tr |-> <<>>, n |-> 0,
          denied |-> debugfs_private /\ euid # ROOT_UID, raised |-> FALSE]

\* An operation runs from call to return in one step.
Call(op, args, r) ==
    /\ last.op = "idle"
    /\ ec_path' = r.m.ec_path
    /\ use_ec_sys' = r.m.use_ec_sys
    /\ exists' = r.m.exists
    /\ reg' = r.m.reg
    /\ last' = [op |-> op, args |-> args, ret |-> r.v, tr |-> r.m.tr,
                raised |-> r.m.raised]
    /\ UNCHANGED <<euid, prev, debugfs_private>>

\* The caller takes the result.  A setter that returned true with every access
\* succeeding is remembered as the operation a following read comes after.
Return ==
    /\ last.op # "idle"
    /\ last' = Idle
    /\ prev' = IF last.op \in Setters /\ last.ret = TRUE /\ Clean(last.tr)
               THEN [op |-> last.op, args |-> last.args]
               ELSE NoPrev
    /\ UNCHANGED <<euid, exists, ec_path, use_ec_sys, reg, debugfs_private>>

IsAvailable ==
    \E mp \in ModprobeOutcomes :
        Call("is_available", <<>>, is_available(Start, euid, mp))

SetCoolerBoost ==
    \E enabled \in BOOLEAN, F \in FaultSets(5) :
        Call("set_cooler_boost", <<enabled>>, set_cooler_boost(Start, F, enabled))

SetCoolerBoostIndividual ==
    \E cpu_max \in BOOLEAN, gpu_max \in BOOLEAN, F \in FaultSets(5) :
        Call("set_cooler_boost_individual", <<cpu_max, gpu_max>>,
             set_cooler_boost_individual(Start, F, cpu_max, gpu_max))

SetCustomFan ==
    \E percent \in PercentArgs, F \in FaultSets(5) :
        Call("set_custom_fan", <<percent>>, set_custom_fan(Start, F, percent))

SetCustomFans ==
    \E cpu_percent \in PercentArgs, gpu_percent \in PercentArgs, F \in FaultSets(5) :
        Call("set_custom_fans", <<cpu_percent, gpu_percent>>,
             set_custom_fans(Start, F, cpu_percent, gpu_percent))

GetCoolerBoostStatus ==
    \E F \in FaultSets(2) :
        Call("get_cooler_boost_status", <<>>, get_cooler_boost_status(Start, F))

GetFanInfo ==
    \E d \in Disturbances(10) :
        Call("get_fan_info", <<>>, get_fan_info(Start, d[1], d[2]))

\* An interface node appears or vanishes (a module is loaded or unloaded).
ResourceChange ==
    /\ last.op = "idle"
    /\ \E p \in Paths :
        exists' = IF p \in exists THEN exists \ {p} ELSE exists \cup {p}
    /\ prev' = NoPrev
    /\ UNCHANGED <<euid, ec_path, use_ec_sys, reg, last, debugfs_private>>

\* Another writer changes a mode register between two operations.
OtherWriter ==
    /\ last.op = "idle"
    /\ \E w \in ExtWrites \ {<<>>} :
        /\ reg[w[1]] # w[2]
        /\ reg' = [reg EXCEPT ![w[1]] = w[2]]
    /\ prev' = NoPrev
    /\ UNCHANGED <<euid, exists, ec_path, use_ec_sys, last, debugfs_private>>

\* The hardware changes a register between two operations.
HardwareWrite ==
    /\ last.op = "idle"
    /\ \E r \in Regs \ {EC_WRITE_ENABLE} : \E b \in Bytes(r) :
        /\ reg[r] # b
        /\ reg' = [reg EXCEPT ![r] = b]
    /\ prev' = NoPrev
    /\ UNCHANGED <<euid, exists, ec_path, use_ec_sys, last, debugfs_private>>

InitWith(uids, nodes, regs) ==
    /\ euid \in uids
    /\ exists \in nodes
    /\ ec_path = None
    /\ use_ec_sys = FALSE
    /\ reg \in regs
    /\ last = Idle
    /\ prev = NoPrev

\* The register store at power-on: both fans automatic, nothing else set.
PowerOn ==
    [r \in Regs |-> IF r = EC_CPU_FAN_MODE THEN CPU_AUTO
                    ELSE IF r = EC_GPU_FAN_MODE THEN GPU_AUTO ELSE 0]

\* The controller's protocol: every public operation, with the interface nodes
\* coming and going and another writer on the mode registers; the process may
\* stat both nodes.
Init == InitWith(Uids, SUBSET Paths, {PowerOn}) /\ debugfs_private = FALSE

Next ==
    \/ IsAvailable
    \/ SetCoolerBoost
    \/ SetCoolerBoostIndividual
    \/ SetCustomFan
    \/ SetCustomFans
    \/ GetCoolerBoostStatus
    \/ GetFanInfo
    \/ Return
    \/ ResourceChange
    \/ OtherWriter

Spec == Init /\ [][Next]_vars

\* The status reader over arbitrary register contents: the store starts with any
\* of the sampled bytes in every register and the hardware keeps changing it;
\* both interface nodes exist, or none does.
Store(cm, gm, cp, gp, clo, chi, glo, ghi) ==
    [r \in Regs |-> IF r = EC_CPU_FAN_MODE THEN cm
                    ELSE IF r = EC_GPU_FAN_MODE THEN gm
                    ELSE IF r = EC_CPU_FAN_PCT THEN cp
                    ELSE IF r = EC_GPU_FAN_PCT THEN gp
                    ELSE IF r = EC_CPU_FAN_RPM_LO THEN clo
                    ELSE IF r = EC_CPU_FAN_RPM_HI THEN chi
                    ELSE IF r = EC_GPU_FAN_RPM_LO THEN glo
                    ELSE IF r = EC_GPU_FAN_RPM_HI THEN ghi
                    ELSE 0]

SampledStores ==
    {Store(cm, gm, cp, gp, clo, chi, glo, ghi) :
        cm \in CpuModeBytes, gm \in GpuModeBytes, cp \in PctBytes, gp \in PctBytes,
        clo \in RpmLoBytes, chi \in RpmHiBytes, glo \in RpmLoBytes, ghi \in RpmHiBytes}

InitReader == InitWith({ROOT_UID}, {Paths, {}}, SampledStores) /\ debugfs_private = FALSE

NextReader ==
    \/ GetCoolerBoostStatus
    \/ GetFanInfo
    \/ Return
    \/ HardwareWrite

SpecReader == InitReader /\ [][NextReader]_vars

\* The controller in an unprivileged process on a system whose debugfs has its
\* default mode: /sys/kernel/debug cannot be searched, so stat() of the debugfs
\* node is denied.
InitUnprivileged ==
    InitWith(Uids \ {ROOT_UID}, SUBSET Paths, {PowerOn}) /\ debugfs_private = TRUE

NextUnprivileged ==
    \/ IsAvailable
    \/ SetCoolerBoost
    \/ SetCoolerBoostIndividual
    \/ SetCustomFan
    \/ SetCustomFans
    \/ GetCoolerBoostStatus
    \/ GetFanInfo
    \/ Return
    \/ ResourceChange

SpecUnprivileged == InitUnprivileged /\ [][NextUnprivileged]_vars

(* ---------------------------------------------------------------------- *)
(* Reading a trace                                                         *)
(* ---------------------------------------------------------------------- *)
IsWrite(e) == e[1] = "write"
IsRead(e) == e[1] = "read"
Writes(tr) == SelectSeq(tr, IsWrite)
Reads(tr) == SelectSeq(tr, IsRead)

\* The optional byte the k-th of the reads rs returned, given the store it read.
ReadResult(rs, store, k) ==
    IF rs[k][3] THEN Some(store[rs[k][2]]) ELSE Absent

InRange(p) == PCT_MIN <= p /\ p <= PCT_MAX

\* The operation is a mutating one that got past its argument check.
Mutating(l) ==
    \/ l.op \in {"set_cooler_boost", "set_cooler_boost_individual"}
    \/ l.op = "set_custom_fan" /\ InRange(l.args[1])
    \/ l.op = "set_custom_fans" /\ InRange(l.args[1]) /\ InRange(l.args[2])

(* ---------------------------------------------------------------------- *)
(* C1..C10                                                                 *)
(* ---------------------------------------------------------------------- *)

\* C1: when set_custom_fans(p, p) ran with every access succeeding and
\* get_fan_info() follows it, again with every access succeeding, the snapshot
\* has mode "custom" and cpu_percent = gpu_percent = p.
C1_CustomReadBack ==
    (/\ last.op = "get_fan_info"
     /\ Clean(last.tr)
     /\ prev.op = "set_custom_fans"
     /\ prev.args[1] = prev.args[2])
    => /\ last.ret.mode = "custom"
       /\ last.ret.cpu_percent = Some(prev.args[1])
       /\ last.ret.gpu_percent = Some(prev.args[1])

C1_Witness ==
    /\ last.op = "get_fan_info"
    /\ Clean(last.tr)
    /\ prev = [op |-> "set_custom_fans", args |-> <<50, 50>>]
    /\ last.ret.mode = "custom"
    /\ last.ret.cpu_percent = Some(50)

\* C2: set_custom_fans with an argument outside 0..100 returns false, attempts
\* no register write (none to the write-enable register either) and leaves
\* every register as it was.
C2_RejectNoWrites ==
    [][(/\ last'.op = "set_custom_fans"
        /\ ~InRange(last'.args[1]) \/ ~InRange(last'.args[2]))
       => /\ last'.ret = FALSE
          /\ Writes(last'.tr) = <<>>
          /\ reg' = reg]_vars

C2_Witness ==
    /\ last.op = "set_custom_fans"
    /\ last.args = <<50, 101>>
    /\ last.ret = FALSE
    /\ exists = Paths

\* C3: a mutating operation attempts exactly one write of 0x11 to register
\* 0x03, as its first register write; when that write fails the operation
\* returns false and attempts no other write.
C3_GateFirstAndOnce ==
    Mutating(last) =>
        LET w == Writes(last.tr) IN
        /\ Len(w) >= 1
        /\ w[1][2] = EC_WRITE_ENABLE /\ w[1][3] = WRITE_ENABLE_CODE
        /\ \A i \in 2..Len(w) : w[i][2] # EC_WRITE_ENABLE
        /\ ~w[1][4] => (last.ret = FALSE /\ Len(w) = 1)

C3_Witness ==
    /\ last.op = "set_cooler_boost_individual"
    /\ ec_path \in exists
    /\ Len(Writes(last.tr)) = 1
    /\ ~Writes(last.tr)[1][4]
    /\ last.ret = FALSE

\* C4: get_cooler_boost_status() is true iff both mode registers are read and
\* hold 0x08 (CPU) and 0x20 (GPU), is absent iff one of the two reads fails,
\* and is false for every other pair of bytes read.
C4_BoostStatus ==
    last.op = "get_cooler_boost_status" =>
        LET rs == Reads(last.tr)
            cpu == ReadResult(rs, reg, 1)
            gpu == ReadResult(rs, reg, 2)
            unreadable == ~IsSome(cpu) \/ ~IsSome(gpu)
            both_max == /\ ~unreadable
                        /\ Val(cpu) = CPU_MAX /\ Val(gpu) = GPU_MAX
        IN /\ rs[1][2] = EC_CPU_FAN_MODE
           /\ rs[2][2] = EC_GPU_FAN_MODE
           /\ (last.ret = Some(TRUE)) <=> both_max
           /\ (last.ret = Absent) <=> unreadable
           /\ (last.ret = Some(FALSE)) <=> (~unreadable /\ ~both_max)

C4_Witness ==
    /\ last.op = "get_cooler_boost_status"
    /\ Clean(last.tr)
    /\ reg[EC_CPU_FAN_MODE] = CPU_MAX
    /\ reg[EC_GPU_FAN_MODE] = GPU_AUTO
    /\ last.ret = Some(FALSE)

\* C5: the mode of a snapshot is "max" iff the mode registers read 0x08 and
\* 0x20, "auto" iff 0x04 and 0x10, "custom" iff 0x0c and 0x30, and "unknown"
\* otherwise: for mixed families and when a mode register is unreadable.
C5_ModeLabel ==
    [][last'.op = "get_fan_info" =>
        LET rs == Reads(last'.tr)
            cpu == ReadResult(rs, reg, 1)
            gpu == ReadResult(rs, reg, 2)
            both(c, g) == /\ IsSome(cpu) /\ IsSome(gpu)
                          /\ Val(cpu) = c /\ Val(gpu) = g
            mode == last'.ret.mode
        IN /\ rs[1][2] = EC_CPU_FAN_MODE
           /\ rs[2][2] = EC_GPU_FAN_MODE
           /\ (mode = "max") <=> both(CPU_MAX, GPU_MAX)
           /\ (mode = "auto") <=> both(CPU_AUTO, GPU_AUTO)
           /\ (mode = "custom") <=> both(CPU_CUSTOM, GPU_CUSTOM)
           /\ (mode = "unknown") <=>
                ~(\/ both(CPU_MAX, GPU_MAX) \/ both(CPU_AUTO, GPU_AUTO)
                  \/ both(CPU_CUSTOM, GPU_CUSTOM))]_vars

C5_Witness ==
    /\ last.op = "get_fan_info"
    /\ Clean(last.tr)
    /\ reg[EC_CPU_FAN_MODE] = CPU_AUTO
    /\ reg[EC_GPU_FAN_MODE] = GPU_MAX
    /\ last.ret.mode = "unknown"
    /\ last.ret.cooler_boost = Some(FALSE)

\* C6: a mutating operation returns true iff its write to the write-enable
\* register succeeded, whatever became of the writes after it; every byte
\* that did reach a register stays there.
C6_ReturnIsGateOutcome ==
    Mutating(last) =>
        LET w == Writes(last.tr) IN
        /\ (last.ret = TRUE) <=> w[1][4]
        /\ \A i \in 1..Len(w) : w[i][4] => reg[w[i][2]] = w[i][3]

C6_Witness ==
    /\ last.op = "set_cooler_boost_individual"
    /\ last.args = <<TRUE, TRUE>>
    /\ last.ret = TRUE
    /\ Writes(last.tr)[2][4] /\ ~Writes(last.tr)[3][4]
    /\ reg[EC_CPU_FAN_MODE] = CPU_MAX
    /\ reg[EC_GPU_FAN_MODE] # GPU_MAX

\* C7: when every access succeeds, set_cooler_boost_individual(c, g) leaves
\* 0x08 if c else 0x04 in the CPU mode register and 0x20 if g else 0x10 in the
\* GPU mode register; and get_cooler_boost_status() right after
\* set_cooler_boost(true) returns true with the registers at 0x08 and 0x20.
C7_BoostReadBack ==
    /\ (last.op = "set_cooler_boost_individual" /\ Clean(last.tr))
       => /\ reg[EC_CPU_FAN_MODE] = (IF last.args[1] THEN CPU_MAX ELSE CPU_AUTO)
          /\ reg[EC_GPU_FAN_MODE] = (IF last.args[2] THEN GPU_MAX ELSE GPU_AUTO)
    /\ (/\ last.op = "get_cooler_boost_status"
        /\ Clean(last.tr)
        /\ prev = [op |-> "set_cooler_boost", args |-> <<TRUE>>])
       => /\ last.ret = Some(TRUE)
          /\ ReadResult(Reads(last.tr), reg, 1) = Some(CPU_MAX)
          /\ ReadResult(Reads(last.tr), reg, 2) = Some(GPU_MAX)

C7_Witness ==
    /\ last.op = "get_cooler_boost_status"
    /\ Clean(last.tr)
    /\ prev = [op |-> "set_cooler_boost", args |-> <<TRUE>>]
    /\ last.ret = Some(TRUE)

\* An optional RPM is absent or a plausible value.
PlausibleRpm(o) == IsSome(o) => (1 <= Val(o) /\ Val(o) <= RPM_LIMIT)

\* C8: in every snapshot cpu_rpm and gpu_rpm are each absent or in 1..65000.
C8_RpmNeverZeroOrHuge ==
    last.op = "get_fan_info" =>
        PlausibleRpm(last.ret.cpu_rpm) /\ PlausibleRpm(last.ret.gpu_rpm)

\* An optional percent is absent or in 0..100.
PercentInRange(o) == IsSome(o) => InRange(Val(o))

\* C9: in every snapshot cpu_percent and gpu_percent are each absent or in
\* 0..100, whatever bytes the percent registers hold.
C9_PercentInRange ==
    last.op = "get_fan_info" =>
        PercentInRange(last.ret.cpu_percent) /\ PercentInRange(last.ret.gpu_percent)

\* C10: without root privilege is_available() returns (false, privilege
\* message) at once: no filesystem probe, no modprobe, the handle as it was.
C10_UnprivilegedFailsFast ==
    [][(last'.op = "is_available" /\ euid # ROOT_UID)
       => /\ last'.ret = <<FALSE, MSG_ROOT>>
          /\ last'.tr = <<>>
          /\ ec_path' = ec_path
          /\ use_ec_sys' = use_ec_sys
          /\ exists' = exists]_vars

C10_Witness ==
    /\ last.op = "is_available"
    /\ euid # ROOT_UID
    /\ exists = Paths
    /\ ec_path = None
    /\ last.ret = <<FALSE, MSG_ROOT>>

(* ---------------------------------------------------------------------- *)
(* C11..C20                                                                *)
(* ---------------------------------------------------------------------- *)
IsModprobe(e) == e[1] = "modprobe"
IsProbe(e) == e[1] = "exists"

\* C11: in one is_available() call by root, modprobe is run only when neither
\* interface node exists when the call begins, and at most once; a probe of
\* the nodes follows it; and when no node exists after it the call returns
\* (false, boot-parameter message).
C11_RemediationOnlyWhenMissing ==
    [][(last'.op = "is_available" /\ euid = ROOT_UID)
       => LET tr == last'.tr
              loads == SelectSeq(tr, IsModprobe)
          IN /\ Len(loads) <= 1
             /\ Len(loads) = 1 => exists = {}
             /\ \A i \in 1..Len(tr) :
                   IsModprobe(tr[i]) => \E j \in (i+1)..Len(tr) : IsProbe(tr[j])
             /\ exists' = {} => last'.ret = <<FALSE, MSG_GRUB>>]_vars

\* The operations that read or write registers.
Readers == {"get_cooler_boost_status", "get_fan_info"}

\* The step is an operation that runs _detect_ec_interface(): is_available()
\* past its privilege check, or a register access with no handle resolved yet.
Detects ==
    \/ last'.op = "is_available" /\ euid = ROOT_UID
    \/ ec_path = None /\ (Mutating(last') \/ last'.op \in Readers)

Accessing(l) == Mutating(l) \/ l.op \in Readers

\* C13: a register access resolves the handle when there is none and a node
\* exists, keeps a handle whose node exists, and re-resolves a handle whose
\* node has vanished: after an operation whose accesses found the cached
\* path gone while the other node exists, the handle is on an existing node,
\* with no call of is_available().
C13_ReResolveVanished ==
    [][Accessing(last') =>
        /\ (ec_path = None /\ exists # {}) => ec_path' \in exists
        /\ ec_path \in exists => ec_path' = ec_path
        /\ (ec_path # None /\ ec_path \notin exists /\ exists # {})
              => ec_path' \in exists]_vars

\* C14: once the handle is resolved to one of the two nodes, no step of any
\* operation, is_available() included, makes it point to the other node.
C14_OneResourcePerLifetime ==
    [][ec_path # None => ec_path' = ec_path]_vars

Modes == {"max", "auto", "custom", "unknown"}
OptionalBooleans == {Absent, Some(FALSE), Some(TRUE)}

\* C15: every register-access operation returns, whichever accesses fail and
\* whatever denies them: a setter a boolean, get_cooler_boost_status() an
\* optional boolean, get_fan_info() a snapshot; no exception leaves it.
C15_NeverRaises ==
    /\ Accessing(last) \/ last.op \in Setters => ~last.raised
    /\ last.op \in Setters => last.ret \in BOOLEAN
    /\ last.op = "get_cooler_boost_status" => last.ret \in OptionalBooleans
    /\ last.op = "get_fan_info" =>
          /\ last.ret.mode \in Modes
          /\ last.ret.cooler_boost \in OptionalBooleans

\* The register and the value of a write event.
Target(e) == <<e[2], e[3]>>

\* C16: set_custom_fans(c, g) with in-range arguments whose write-enable write
\* succeeded attempts exactly four more writes, in this order: 0x21 <- 0x30,
\* 0x22 <- 0x0c, 0x37 <- c, 0x3a <- g, whichever of them fail; and every byte
\* that reached a register is still there when the call returns.
C16_CustomWriteOrder ==
    (/\ last.op = "set_custom_fans"
     /\ InRange(last.args[1]) /\ InRange(last.args[2])
     /\ Writes(last.tr)[1][4])
    => LET w == Writes(last.tr) IN
       /\ Len(w) = 5
       /\ Target(w[2]) = <<EC_GPU_FAN_MODE, GPU_CUSTOM>>
       /\ Target(w[3]) = <<EC_CPU_FAN_MODE, CPU_CUSTOM>>
       /\ Target(w[4]) = <<EC_CPU_FAN_PCT, last.args[1]>>
       /\ Target(w[5]) = <<EC_GPU_FAN_PCT, last.args[2]>>
       /\ \A i \in 2..5 : w[i][4] => reg[w[i][2]] = w[i][3]

\* The write of the CPU mode failed; the two percents were written all the
\* same and the GPU mode written before it stays.
C16_Witness ==
    /\ last.op = "set_custom_fans"
    /\ last.args = <<50, 100>>
    /\ last.ret = TRUE
    /\ Len(Writes(last.tr)) = 5
    /\ ~Writes(last.tr)[3][4]
    /\ reg[EC_GPU_FAN_MODE] = GPU_CUSTOM
    /\ reg[EC_CPU_FAN_MODE] = CPU_AUTO
    /\ reg[EC_CPU_FAN_PCT] = 50
    /\ reg[EC_GPU_FAN_PCT] = 100

\* C17: set_cooler_boost_individual(c, g) whose write-enable write succeeded
\* attempts exactly two more writes, in this order: 0x22 <- (0x08 if c else
\* 0x04), then 0x21 <- (0x20 if g else 0x10); the second is attempted when
\* the first failed too.
C17_BoostWriteOrder ==
    (last.op = "set_cooler_boost_individual" /\ Writes(last.tr)[1][4])
    => LET w == Writes(last.tr) IN
       /\ Len(w) = 3
       /\ Target(w[2]) =
            <<EC_CPU_FAN_MODE, IF last.args[1] THEN CPU_MAX ELSE CPU_AUTO>>
       /\ Target(w[3]) =
            <<EC_GPU_FAN_MODE, IF last.args[2] THEN GPU_MAX ELSE GPU_AUTO>>

\* The CPU write failed and the GPU write after it succeeded.
C17_Witness ==
    /\ last.op = "set_cooler_boost_individual"
    /\ last.args = <<TRUE, TRUE>>
    /\ last.ret = TRUE
    /\ Len(Writes(last.tr)) = 3
    /\ ~Writes(last.tr)[2][4]
    /\ Writes(last.tr)[3][4]
    /\ reg[EC_CPU_FAN_MODE] = CPU_AUTO
    /\ reg[EC_GPU_FAN_MODE] = GPU_MAX

\* What the read of register r in the reads rs returned, given the store it
\* read: absent when r was not read or its read failed.
ReadOf(rs, store, r) ==
    IF \E k \in 1..Len(rs) : rs[k][2] = r
    THEN ReadResult(rs, store, CHOOSE k \in 1..Len(rs) : rs[k][2] = r)
    ELSE Absent

\* The RPM measured from a low and a high byte: a value in 1..65000, or absent.
Measured(lo, hi) ==
    IF ~IsSome(lo) THEN Absent
    ELSE LET val == IF IsSome(hi) THEN Val(hi) * 256 + Val(lo) ELSE Val(lo)
         IN IF 1 <= val /\ val <= RPM_LIMIT THEN Some(val) ELSE Absent

\* The RPM a snapshot is to carry for a measured value and a percent.
ExpectedRpm(measured, pct) ==
    IF IsSome(measured) THEN measured
    ELSE IF IsSome(pct) THEN Some(Val(pct) * RPM_PER_PERCENT)
    ELSE Absent

\* C18: for each domain of a snapshot, a measured RPM in 1..65000 is returned
\* as it is, whatever the percent; without one, a readable percent p gives
\* p * 55; without either the RPM is absent.
C18_RpmMeasuredOrEstimated ==
    last.op = "get_fan_info" =>
        LET rs == Reads(last.tr)
            cpu == Measured(ReadOf(rs, reg, EC_CPU_FAN_RPM_LO),
                            ReadOf(rs, reg, EC_CPU_FAN_RPM_HI))
            gpu == Measured(ReadOf(rs, reg, EC_GPU_FAN_RPM_LO),
                            ReadOf(rs, reg, EC_GPU_FAN_RPM_HI))
        IN /\ last.ret.cpu_rpm = ExpectedRpm(cpu, ReadOf(rs, reg, EC_CPU_FAN_PCT))
           /\ last.ret.gpu_rpm = ExpectedRpm(gpu, ReadOf(rs, reg, EC_GPU_FAN_PCT))

\* The CPU domain has no valid measurement and a percent of 50; the GPU domain
\* has a measurement and a percent that would give another value.
C18_Witness ==
    /\ last.op = "get_fan_info"
    /\ Clean(last.tr)
    /\ reg[EC_CPU_FAN_RPM_LO] = 0 /\ reg[EC_CPU_FAN_RPM_HI] = 0
    /\ reg[EC_CPU_FAN_PCT] = 50
    /\ last.ret.cpu_rpm = Some(2750)
    /\ reg[EC_GPU_FAN_RPM_LO] = 233 /\ reg[EC_GPU_FAN_RPM_HI] = 0
    /\ reg[EC_GPU_FAN_PCT] = 50
    /\ last.ret.gpu_rpm = Some(233)

C20_SnapshotConsistent ==
    last.op = "get_fan_info" =>
        LET s == last.ret IN
        /\ (s.cooler_boost = Some(TRUE)) <=> (s.mode = "max")
        /\ (IsSome(s.cpu_cooler_boost) /\ IsSome(s.gpu_cooler_boost))
              => s.cooler_boost =
                    Some(Val(s.cpu_cooler_boost) /\ Val(s.gpu_cooler_boost))

====
